---- MODULE Spec2Model ----
(***************************************************************************)
(* PATHFINDER orchestration graph (backend/app/graph.py), its Commander    *)
(* and Critic nodes and the transport that starts a run                    *)
(* (backend/app/api/routes.py).                                            *)
(*                                                                         *)
(* The state record is a function from the keys that are present to their  *)
(* values; a key that is absent is not in the domain, so state.get(k, d)   *)
(* is Get(state, k, d).  Weights are in tenths (10 is 1.0).  Python's None *)
(* is the string "None" in string-valued fields.                           *)
(***************************************************************************)
EXTENDS Integers, Sequences, FiniteSets, TLC

\* ------------------------------------------------------------------ bounds
\* Longest candidate list Scout returns in the model.
MaxVenues == 2
\* Longest prefix of the executed-node sequence that is recorded.
MaxTrace == 7
\* Largest retry_count a directly called function is handed.
MaxRetryIn == 2

VARIABLES
    state,      \* the canonical state record of the run
    pc,         \* the node the executor runs next, or how the run ended
    last,       \* the node (or function) that ran last
    update,     \* the partial update that node returned
    env,        \* what the collaborators answered to that node
    trace,      \* the nodes executed so far, first MaxTrace of them
    verdict     \* what the Critic decided in the latest pass

vars == <<state, pc, last, update, env, trace, verdict>>

\* ------------------------------------------------------------------ helpers
None == "None"
EmptyMap == [k \in {} |-> None]
EmptyWeights == [k \in {} |-> 0]
NoEnv == [kind |-> "none"]

\* dict.get(k, d)
Get(s, k, d) == IF k \in DOMAIN s THEN s[k] ELSE d

\* dict.update / the executor's merge of a partial update, by key
Merge(s, u) ==
    [k \in DOMAIN s \cup DOMAIN u |-> IF k \in DOMAIN u THEN u[k] ELSE s[k]]

\* x in list
InList(x, l) == \E i \in 1..Len(l) : l[i] = x

\* the recorded prefix of a growing sequence
Capped(seq, x) == IF Len(seq) < MaxTrace THEN Append(seq, x) ELSE seq

Count(seq, x) == Cardinality({i \in 1..Len(seq) : seq[i] = x})

\* ------------------------------------------------------------- the callers
Prompt == "cozy cafe downtown"

\* POST /plan: the initial state of create_plan
InitialStatePlan ==
    [raw_prompt |-> Prompt,
     parsed_intent |-> EmptyMap,
     complexity_tier |-> "tier_2",
     active_agents |-> <<>>,
     agent_weights |-> EmptyWeights,
     candidate_venues |-> <<>>,
     vibe_scores |-> EmptyMap,
     cost_profiles |-> EmptyMap,
     risk_flags |-> [k \in {} |-> <<>>],
     veto |-> FALSE,
     veto_reason |-> None,
     fast_fail |-> FALSE,
     fast_fail_reason |-> None,
     retry_count |-> 0,
     ranked_results |-> <<>>,
     snowflake_context |-> <<None>>,
     member_locations |-> <<>>,
     chat_history |-> <<>>]

\* GET /ws/plan: the initial state of websocket_plan
InitialStateWS ==
    [raw_prompt |-> Prompt,
     parsed_intent |-> EmptyMap,
     complexity_tier |-> "tier_2",
     active_agents |-> <<>>,
     agent_weights |-> EmptyWeights,
     candidate_venues |-> <<>>,
     vibe_scores |-> EmptyMap,
     cost_profiles |-> EmptyMap,
     risk_flags |-> [k \in {} |-> <<>>],
     veto |-> FALSE,
     veto_reason |-> None,
     fast_fail |-> FALSE,
     fast_fail_reason |-> None,
     retry_count |-> 0,
     ranked_results |-> <<>>,
     member_locations |-> <<>>]

\* pathfinder_graph.invoke(PathfinderState(raw_prompt=prompt))
InitialStateInvoke == [raw_prompt |-> Prompt]

\* ------------------------------------------------------------ the LLM plan
\* A JSON object the LLM may answer the Commander with; a key may be missing.
PlanAll ==
    [parsed_intent |-> [activity |-> "cafe"],
     complexity_tier |-> "tier_3",
     active_agents |-> <<"scout", "vibe_matcher", "cost_analyst", "critic">>,
     agent_weights |-> [scout |-> 10, vibe_matcher |-> 4, cost_analyst |-> 5, critic |-> 7]]

PlanCost ==
    [parsed_intent |-> [activity |-> "basketball"],
     complexity_tier |-> "tier_2",
     active_agents |-> <<"scout", "cost_analyst">>,
     agent_weights |-> [scout |-> 10, cost_analyst |-> 8]]

PlanNoScout ==
    [parsed_intent |-> [activity |-> "cafe"],
     complexity_tier |-> "tier_2",
     active_agents |-> <<"vibe_matcher", "critic">>,
     agent_weights |-> [vibe_matcher |-> 9, critic |-> 3]]

PlanNoAgents ==
    [parsed_intent |-> [activity |-> "cafe"],
     active_agents |-> <<>>]

PlanBare == [complexity_tier |-> "tier_1"]

\* a plan that keeps the Critic but drops the two other analysts, with an
\* intent parameter the prompt asks for and weights it does not allow
\* (weights are in tenths)
PlanCritic ==
    [parsed_intent |-> [activity |-> "picnic", vibe |-> "lively"],
     complexity_tier |-> "tier_2",
     active_agents |-> <<"scout", "critic">>,
     agent_weights |-> [scout |-> 15, critic |-> -2]]

Plans == {PlanAll, PlanCost, PlanNoScout, PlanNoAgents, PlanBare, PlanCritic}

\* What json.loads can make of a text: no JSON at all, JSON that is no object,
\* or a plan object.
JsonValues ==
    {[json |-> "invalid"], [json |-> "array"]}
        \cup {[json |-> "object", obj |-> p] : p \in Plans}

\* How the text is wrapped: bare, in a ```json fence, or in a plain ``` fence.
Fences == {"none", "json_fence", "plain_fence"}

\* generate_content: raises, returns None, or returns a text
LLMResponses ==
    {[kind |-> "raises"], [kind |-> "null"]}
        \cup {[kind |-> "text", fence |-> f, body |-> b] : f \in Fences, b \in JsonValues}

\* The plans drawn in a run of the graph
RunPlans == {PlanAll, PlanCost, PlanNoScout, PlanNoAgents, PlanBare}

\* The answers drawn in a run of the graph: each failure once, each of the
\* run's plans once
RunLLMResponses ==
    {[kind |-> "raises"], [kind |-> "null"],
     [kind |-> "text", fence |-> "none", body |-> [json |-> "invalid"]],
     [kind |-> "text", fence |-> "json_fence", body |-> [json |-> "array"]],
     [kind |-> "text", fence |-> "plain_fence", body |-> [json |-> "object", obj |-> PlanAll]]}
        \cup {[kind |-> "text", fence |-> "none", body |-> [json |-> "object", obj |-> p]] :
                p \in RunPlans}

\* snowflake_service.cortex_search(raw_prompt, top_k=2): it catches its own
\* failures and returns [] for them
MemoryResults == {<<>>, <<"memory 1">>}
RunMemoryResults == {<<"memory 1">>}

\* The Commander's markdown clean-up followed by json.loads: a leading
\* ```json and a trailing ``` are cut, a leading plain ``` is not, and what is
\* left of a plain fence is no JSON.
ParsePlanText(resp) ==
    IF resp.fence = "plain_fence" THEN [json |-> "invalid"] ELSE resp.body

FallbackPlan ==
    [parsed_intent |-> EmptyMap,
     complexity_tier |-> "tier_1",
     active_agents |-> <<"scout">>,
     agent_weights |-> [scout |-> 10],
     snowflake_context |-> <<>>]

PlanUpdate(plan, context) ==
    [parsed_intent |-> Get(plan, "parsed_intent", EmptyMap),
     complexity_tier |-> Get(plan, "complexity_tier", "tier_2"),
     active_agents |-> Get(plan, "active_agents", <<"scout">>),
     agent_weights |-> Get(plan, "agent_weights", [scout |-> 10]),
     snowflake_context |-> context]

\* commander_node as it would be with a retry counter that counts each of the
\* two aliases the Critic sets
commander_node_counts_both_aliases(s, resp, context) ==
    LET bump == (IF Get(s, "veto", FALSE) THEN 1 ELSE 0)
                    + (IF Get(s, "fast_fail", FALSE) THEN 1 ELSE 0)
        plan == IF resp.kind = "text" /\ ParsePlanText(resp).json = "object"
                THEN PlanUpdate(ParsePlanText(resp).obj, context)
                ELSE FallbackPlan
    IN  [raised |-> FALSE,
         update |-> Merge(plan, [retry_count |-> Get(s, "retry_count", 0) + bump])]

\* commander_node as it would be with a guard that turns a None answer into
\* an empty plan object instead of letting it reach the handler
commander_node_none_is_empty_plan(s, resp, context) ==
    IF resp.kind = "raises"
    THEN [raised |-> FALSE, update |-> FallbackPlan]
    ELSE IF resp.kind = "null"
    THEN [raised |-> FALSE, update |-> PlanUpdate(EmptyMap, context)]
    ELSE LET parsed == ParsePlanText(resp)
         IN  IF parsed.json # "object"
             THEN [raised |-> FALSE, update |-> FallbackPlan]
             ELSE [raised |-> FALSE, update |-> PlanUpdate(parsed.obj, context)]

\* commander_node as it would be if it merged the plan's intent into the
\* intent already in the state
commander_node_merges_intent(s, resp, context) ==
    IF resp.kind # "text"
    THEN [raised |-> FALSE, update |-> FallbackPlan]
    ELSE LET parsed == ParsePlanText(resp)
         IN  IF parsed.json # "object"
             THEN [raised |-> FALSE, update |-> FallbackPlan]
             ELSE [raised |-> FALSE,
                   update |-> [PlanUpdate(parsed.obj, context) EXCEPT
                                !.parsed_intent = Merge(Get(s, "parsed_intent", EmptyMap), @)]]

\* commander_node(state) with the LLM answering resp and the memory lookup
\* answering context.  Everything that can fail is inside the try, whose
\* handler returns the fallback plan: a raising call, None.startswith, a
\* json.loads error, and plan.get on a JSON value that is no object.
\* Result: whether the node raised, and the update it returned.
commander_node(s, resp, context) ==
    IF resp.kind # "text"
    THEN [raised |-> FALSE, update |-> FallbackPlan]
    ELSE LET parsed == ParsePlanText(resp)
         IN  IF parsed.json # "object"
             THEN [raised |-> FALSE, update |-> FallbackPlan]
             ELSE [raised |-> FALSE, update |-> PlanUpdate(parsed.obj, context)]

\* The mapping commander_node was given, as it is when the node returns:
\* lines 75-83 assign the plan's fields to state[...] once json.loads has
\* produced an object; every failure happens before the first assignment.
commander_node_state(s, resp, context) ==
    IF resp.kind = "text" /\ ParsePlanText(resp).json = "object"
    THEN Merge(s, PlanUpdate(ParsePlanText(resp).obj, context))
    ELSE s

\* ------------------------------------------------------- conditional edge
Truthy(s, k) == Get(s, k, FALSE)

\* _should_retry as it would be with the cap off by one
should_retry_cap_off_by_one(s) ==
    IF (Truthy(s, "fast_fail") \/ Truthy(s, "veto")) /\ Get(s, "retry_count", 0) <= 1
    THEN "commander"
    ELSE "synthesiser"

_should_retry(s) ==
    IF (Truthy(s, "fast_fail") \/ Truthy(s, "veto")) /\ Get(s, "retry_count", 0) < 1
    THEN "commander"
    ELSE "synthesiser"

\* build_graph as it would be with the retry edge wired to scout
build_graph_retry_to_scout(node, s) ==
    IF node = "commander" THEN "scout"
    ELSE IF node = "scout" THEN "parallel_analysts"
    ELSE IF node = "parallel_analysts"
    THEN (IF _should_retry(s) = "commander" THEN "scout" ELSE "synthesiser")
    ELSE "END"

\* The edges of build_graph: the node that follows node when node has left
\* the state as s
build_graph(node, s) ==
    IF node = "commander" THEN "scout"
    ELSE IF node = "scout" THEN "parallel_analysts"
    ELSE IF node = "parallel_analysts" THEN _should_retry(s)
    ELSE "END"

EntryPoint == "commander"

\* ------------------------------------------ functions called on their own
\* States a test hands to a function directly: any of the veto signals and
\* retry_count may be missing.
BoolOrAbsent(k) == {EmptyMap} \cup {[x \in {k} |-> b] : b \in BOOLEAN}
RetryOrAbsent == {EmptyWeights} \cup {[retry_count |-> n] : n \in 0..MaxRetryIn}

\* the profile a test puts in the state, or none
ProfileOrAbsent ==
    {EmptyMap,
     [user_profile |-> [app_metadata |-> [preferences |-> [budget_sensitive |-> TRUE]]]]}

UnitStates ==
    {Merge(Merge(Merge(Merge([raw_prompt |-> Prompt], v), f), r), p) :
        v \in BoolOrAbsent("veto"), f \in BoolOrAbsent("fast_fail"), r \in RetryOrAbsent,
        p \in ProfileOrAbsent}

UnitInit ==
    /\ state \in UnitStates
    /\ pc = "unit"
    /\ last = "none"
    /\ update = EmptyMap
    /\ env = NoEnv
    /\ trace = <<>>
    /\ verdict = "none"

UnitShouldRetry ==
    /\ pc = "unit"
    /\ pc' = _should_retry(state)
    /\ last' = "_should_retry"
    /\ UNCHANGED <<state, update, env, trace, verdict>>

UnitCommander ==
    /\ pc = "unit"
    /\ \E resp \in LLMResponses, context \in MemoryResults :
         LET r == commander_node(state, resp, context)
         IN  /\ env' = [kind |-> "commander", llm |-> resp, memory |-> context,
                         given |-> state,
                         given_on_return |-> commander_node_state(state, resp, context)]
             /\ update' = r.update
             /\ pc' = IF r.raised THEN "raised" ELSE "returned"
             /\ state' = IF r.raised THEN state ELSE Merge(state, r.update)
    /\ last' = "commander"
    /\ UNCHANGED <<trace, verdict>>

\* ------------------------------------------------------------------ Scout
VenueIds == <<"v1", "v2", "v3", "v4", "v5">>

Min(a, b) == IF a < b THEN a ELSE b

\* The candidate lists the catalogs can produce: the first n venues of the
\* catalog order, or the first two the other way round (a different ranking
\* on another call).
ScoutResults ==
    {SubSeq(VenueIds, 1, n) : n \in 0..Min(MaxVenues, Len(VenueIds))}
        \cup {<<"v2", "v1">>}

\* scout_node: writes candidate_venues, nothing else
scout_node(s, found) == [candidate_venues |-> found]

IdsOf(candidates) == {candidates[i] : i \in 1..Len(candidates)}

\* ----------------------------------------------------------------- Critic
\* A JSON object the LLM may answer the Critic with for one venue.
AnalysisFastFail ==
    [risks |-> <<"weather/high">>, fast_fail |-> TRUE, fast_fail_reason |-> "Rain"]
AnalysisFastFailNoReason == [risks |-> <<"weather/high">>, fast_fail |-> TRUE]

\* The analysis _analyze_venue falls back to when the LLM gave nothing usable
DefaultAnalysis == [risks |-> <<>>, fast_fail |-> FALSE, fast_fail_reason |-> None]

\* What gather hands back for one venue: the exception of a wait_for that
\* timed out (or of a failed weather/events fetch), or the analysis
\* _analyze_venue returned.
VenueTimeout == [kind |-> "exception"]
VenueAnalysis(a) == [kind |-> "analysis", json |-> "object", obj |-> a]

\* An analysis in the vocabulary of the veto aliases
AnalysisVeto ==
    [risks |-> <<"weather/high">>, veto |-> TRUE, veto_reason |-> "Too rainy"]

Analyses == {DefaultAnalysis, AnalysisFastFail, AnalysisFastFailNoReason, AnalysisVeto}

\* Everything gather can hand back for one venue; json.loads may also have
\* produced a JSON value that is no object
VenueResults ==
    {VenueTimeout, [kind |-> "analysis", json |-> "array"]}
        \cup {VenueAnalysis(a) : a \in Analyses}

\* The per-venue results drawn in a run of the graph
RunVenueResults ==
    {VenueTimeout, VenueAnalysis(DefaultAnalysis), VenueAnalysis(AnalysisFastFail),
     VenueAnalysis(AnalysisFastFailNoReason)}

\* the early return as it would be with the veto alias set
CriticEmpty_with_veto ==
    [risk_flags |-> [k \in {} |-> <<>>],
     veto |-> TRUE,
     veto_reason |-> None,
     fast_fail |-> FALSE,
     fast_fail_reason |-> None]

CriticEmpty ==
    [risk_flags |-> [k \in {} |-> <<>>],
     veto |-> FALSE,
     veto_reason |-> None,
     fast_fail |-> FALSE,
     fast_fail_reason |-> None]

\* What can happen to one venue's analysis: its wait_for expires, a weather
\* or events fetch raises, or the LLM is asked and answers
VenueOutcomes ==
    {[kind |-> "timeout"], [kind |-> "fetch_raises"]}
        \cup {[kind |-> "llm", resp |-> r] :
                r \in {[kind |-> "raises"], [kind |-> "null"],
                       [kind |-> "text", fence |-> "none", body |-> [json |-> "invalid"]],
                       [kind |-> "text", fence |-> "json_fence", body |-> [json |-> "array"]],
                       [kind |-> "text", fence |-> "plain_fence",
                        body |-> [json |-> "object", obj |-> AnalysisFastFail]],
                       [kind |-> "text", fence |-> "none",
                        body |-> [json |-> "object", obj |-> [risks |-> <<"event/low">>]]]}}

\* wait_for(_analyze_venue(v), 25) as gather(return_exceptions=True) hands it
\* back: lines 46-108.  The fetches are outside the try, the LLM call and
\* json.loads inside it; all three fences are cut before json.loads.
_analyze_venue(outcome) ==
    IF outcome.kind \in {"timeout", "fetch_raises"}
    THEN VenueTimeout
    ELSE IF outcome.resp.kind # "text"
    THEN VenueAnalysis(DefaultAnalysis)
    ELSE IF outcome.resp.body.json = "invalid"
    THEN VenueAnalysis(DefaultAnalysis)
    ELSE IF outcome.resp.body.json = "array"
    THEN [kind |-> "analysis", json |-> "array"]
    ELSE VenueAnalysis(outcome.resp.body.obj)

\* the loop as it would be if a failed venue were skipped without an entry
RECURSIVE CriticLoop_skips_failed(_, _, _, _)
CriticLoop_skips_failed(top, raw, i, acc) ==
    IF i > Len(top) \/ acc.raised
    THEN acc
    ELSE LET vid == top[i]
             res == raw[i]
             put(risks) == Merge(acc.risk_flags, [k \in {vid} |-> risks])
         IN  IF res.kind = "exception"
             THEN CriticLoop_skips_failed(top, raw, i + 1, acc)
             ELSE IF res.json # "object"
             THEN [acc EXCEPT !.raised = TRUE]
             ELSE LET analysis == res.obj
                      hit == Get(analysis, "fast_fail", FALSE) /\ vid = top[1]
                  IN  CriticLoop_skips_failed(top, raw, i + 1,
                        [risk_flags |-> put(Get(analysis, "risks", <<>>)),
                         fast_fail |-> IF hit THEN TRUE ELSE acc.fast_fail,
                         reason |-> IF hit THEN Get(analysis, "fast_fail_reason", None)
                                           ELSE acc.reason,
                         raised |-> FALSE])

\* The loop of critic_node over the gathered results, from position i on.
\* acc: risk_flags, overall_fast_fail, fast_fail_reason so far, and whether
\* analysis.get raised (the analysis was JSON, but no object).
RECURSIVE CriticLoop(_, _, _, _)
CriticLoop(top, raw, i, acc) ==
    IF i > Len(top) \/ acc.raised
    THEN acc
    ELSE LET vid == top[i]
             res == raw[i]
             put(risks) == Merge(acc.risk_flags, [k \in {vid} |-> risks])
         IN  IF res.kind = "exception"
             THEN CriticLoop(top, raw, i + 1, [acc EXCEPT !.risk_flags = put(<<>>)])
             ELSE IF res.json # "object"
             THEN [acc EXCEPT !.raised = TRUE]
             ELSE LET analysis == res.obj
                      hit == Get(analysis, "fast_fail", FALSE) /\ vid = top[1]
                  IN  CriticLoop(top, raw, i + 1,
                        [risk_flags |-> put(Get(analysis, "risks", <<>>)),
                         fast_fail |-> IF hit THEN TRUE ELSE acc.fast_fail,
                         reason |-> IF hit THEN Get(analysis, "fast_fail_reason", None)
                                           ELSE acc.reason,
                         raised |-> FALSE])

\* critic_node as it would be if a fast-fail of any analysed venue counted
critic_node_any_venue(s, raw) ==
    LET candidates == Get(s, "candidate_venues", <<>>)
    IN  IF candidates = <<>>
        THEN [raised |-> FALSE, update |-> CriticEmpty]
        ELSE LET top == SubSeq(candidates, 1, Min(3, Len(candidates)))
                 r == CriticLoop(top, raw, 1,
                        [risk_flags |-> [k \in {} |-> <<>>], fast_fail |-> FALSE,
                         reason |-> None, raised |-> FALSE])
                 any == \E i \in 1..Len(top) :
                            /\ raw[i].kind = "analysis"
                            /\ raw[i].json = "object"
                            /\ Get(raw[i].obj, "fast_fail", FALSE)
             IN  [raised |-> r.raised,
                  update |-> [risk_flags |-> r.risk_flags,
                              fast_fail |-> any,
                              fast_fail_reason |-> r.reason,
                              veto |-> any,
                              veto_reason |-> r.reason]]

\* critic_node(state), the gather over the top three answering raw
critic_node(s, raw) ==
    LET candidates == Get(s, "candidate_venues", <<>>)
    IN  IF candidates = <<>>
        THEN [raised |-> FALSE, update |-> CriticEmpty]
        ELSE LET top == SubSeq(candidates, 1, Min(3, Len(candidates)))
                 r == CriticLoop(top, raw, 1,
                        [risk_flags |-> [k \in {} |-> <<>>], fast_fail |-> FALSE,
                         reason |-> None, raised |-> FALSE])
             IN  [raised |-> r.raised,
                  update |-> [risk_flags |-> r.risk_flags,
                              fast_fail |-> r.fast_fail,
                              fast_fail_reason |-> r.reason,
                              veto |-> r.fast_fail,
                              veto_reason |-> r.reason]]

\* critic_node called on a state with the candidates of a test
UnitCritic ==
    /\ pc = "unit"
    /\ \E candidates \in ScoutResults :
         \E raw \in [1..Min(3, Len(candidates)) -> VenueResults] :
            LET s == Merge(state, [candidate_venues |-> candidates])
                r == critic_node(s, raw)
            IN  /\ env' = [kind |-> "critic", candidates |-> candidates, raw |-> raw]
                /\ update' = IF r.raised THEN EmptyMap ELSE r.update
                /\ pc' = IF r.raised THEN "raised" ELSE "returned"
                /\ state' = s
    /\ last' = "critic"
    /\ UNCHANGED <<trace, verdict>>

\* critic_node called with each venue's analysis ending as in outcomes
UnitCriticVenues ==
    /\ pc = "unit"
    /\ \E candidates \in ScoutResults :
         \E outcomes \in [1..Min(3, Len(candidates)) -> VenueOutcomes] :
            LET s == Merge(state, [candidate_venues |-> candidates])
                raw == [i \in DOMAIN outcomes |-> _analyze_venue(outcomes[i])]
                r == critic_node(s, raw)
            IN  /\ env' = [kind |-> "critic", candidates |-> candidates, raw |-> raw,
                           outcomes |-> outcomes]
                /\ update' = IF r.raised THEN EmptyMap ELSE r.update
                /\ pc' = IF r.raised THEN "raised" ELSE "returned"
                /\ state' = s
    /\ last' = "critic"
    /\ UNCHANGED <<trace, verdict>>

UnitNext == UnitShouldRetry \/ UnitCommander \/ UnitCritic \/ UnitCriticVenues

UnitSpec == UnitInit /\ [][UnitNext]_vars

\* ------------------------------------------------- the two other analysts
vibe_matcher_node(s) ==
    [vibe_scores |-> [v \in IdsOf(Get(s, "candidate_venues", <<>>)) |-> "vibe"]]

cost_analyst_node(s) ==
    [cost_profiles |-> [v \in IdsOf(Get(s, "candidate_venues", <<>>)) |-> "cost"]]

\* ------------------------------------------------------- ParallelAnalysts
AnalystOrder == <<"vibe_matcher", "critic", "cost_analyst">>

\* the activation test as it would be without the degenerate-plan rule
Activated_only_when_listed(name, active) == InList(name, active)

Activated(name, active) == active = <<>> \/ InList(name, active)

\* A task's entry in the gathered results: an exception or the dict returned
Failed == [ok |-> FALSE]
Returned(u) == [ok |-> TRUE, update |-> u]

SetDefault(m, k, v) == IF k \in DOMAIN m THEN m ELSE Merge(m, [x \in {k} |-> v])

\* the fallbacks as they would be with the Critic's veto aliases left out
AnalystFallback_without_veto(merged, name) ==
    IF name = "vibe_matcher" THEN SetDefault(merged, "vibe_scores", EmptyMap)
    ELSE IF name = "cost_analyst" THEN SetDefault(merged, "cost_profiles", EmptyMap)
    ELSE SetDefault(SetDefault(SetDefault(merged,
            "risk_flags", [k \in {} |-> <<>>]),
            "fast_fail", FALSE),
            "fast_fail_reason", None)

AnalystFallback(merged, name) ==
    IF name = "vibe_matcher" THEN SetDefault(merged, "vibe_scores", EmptyMap)
    ELSE IF name = "cost_analyst" THEN SetDefault(merged, "cost_profiles", EmptyMap)
    ELSE SetDefault(SetDefault(SetDefault(SetDefault(SetDefault(merged,
            "risk_flags", [k \in {} |-> <<>>]),
            "fast_fail", FALSE),
            "fast_fail_reason", None),
            "veto", FALSE),
            "veto_reason", None)

\* The merge loop over zip(task_names, results), from position i on
RECURSIVE MergeLoop(_, _, _, _)
MergeLoop(task_names, results, i, merged) ==
    IF i > Len(task_names)
    THEN merged
    ELSE LET name == task_names[i]
             res == results[name]
         IN  MergeLoop(task_names, results, i + 1,
                IF res.ok THEN Merge(merged, res.update)
                          ELSE AnalystFallback(merged, name))

TaskNames_all(s) ==
    AnalystOrder

TaskNames(s) ==
    SelectSeq(AnalystOrder, LAMBDA name : Activated(name, Get(s, "active_agents", <<>>)))

\* parallel_analysts_node(state), the three tasks ending as in results
parallel_analysts_node_merges_into_state(s, results) ==
    IF TaskNames(s) = <<>>
    THEN EmptyMap
    ELSE MergeLoop(TaskNames(s), results, 1, s)

parallel_analysts_node(s, results) ==
    IF TaskNames(s) = <<>>
    THEN EmptyMap
    ELSE MergeLoop(TaskNames(s), results, 1, EmptyMap)

\* ------------------------------------------------------------ Synthesiser
synthesiser_node(s) ==
    LET candidates == Get(s, "candidate_venues", <<>>)
    IN  [ranked_results |-> SubSeq(candidates, 1, Min(3, Len(candidates)))]

\* ---------------------------------------------------------- a run of the graph
Running == {"commander", "scout", "parallel_analysts", "synthesiser"}

Init ==
    /\ state \in {InitialStatePlan, InitialStateWS, InitialStateInvoke}
    /\ pc = EntryPoint
    /\ last = "none"
    /\ update = EmptyMap
    /\ env = NoEnv
    /\ trace = <<>>
    /\ verdict = "none"

\* entry point, and the target of the retry edge
Commander ==
    /\ pc = "commander"
    /\ \E resp \in RunLLMResponses, context \in RunMemoryResults :
         LET r == commander_node(state, resp, context)
         IN  /\ env' = [kind |-> "commander", llm |-> resp, memory |-> context]
             /\ update' = r.update
             /\ pc' = IF r.raised THEN "failed"
                      ELSE build_graph("commander", Merge(state, r.update))
             /\ state' = IF r.raised THEN state ELSE Merge(state, r.update)
    /\ last' = "commander"
    /\ trace' = Capped(trace, "commander")
    /\ UNCHANGED verdict

\* commander -> scout
Scout ==
    /\ pc = "scout"
    /\ \E found \in ScoutResults :
         /\ update' = scout_node(state, found)
         /\ state' = Merge(state, scout_node(state, found))
    /\ pc' = build_graph("scout", state')
    /\ last' = "scout"
    /\ env' = NoEnv
    /\ trace' = Capped(trace, "scout")
    /\ UNCHANGED verdict

\* What wait_for(critic_node(state.copy()), 45) can end as in a run
CriticResultsFrom(s, venue_results) ==
    LET n == Min(3, Len(Get(s, "candidate_venues", <<>>)))
        outs == {critic_node(s, raw) : raw \in [1..n -> venue_results]}
    IN  {Failed} \cup {IF o.raised THEN Failed ELSE Returned(o.update) : o \in outs}

CriticTaskResults(s) == CriticResultsFrom(s, RunVenueResults)

TaskStatus(s, name, res) ==
    IF ~InList(name, TaskNames(s)) THEN "skipped"
    ELSE IF res.ok THEN "returned" ELSE "failed"

\* scout -> parallel_analysts, then the conditional edge
ParallelAnalysts ==
    /\ pc = "parallel_analysts"
    /\ \E critic \in CriticTaskResults(state),
          vibe \in {Failed, Returned(vibe_matcher_node(state))},
          cost \in {Failed, Returned(cost_analyst_node(state))} :
         LET results == [vibe_matcher |-> vibe, critic |-> critic, cost_analyst |-> cost]
             u == parallel_analysts_node(state, results)
             status == [name \in DOMAIN results |-> TaskStatus(state, name, results[name])]
         IN  /\ update' = u
             /\ state' = Merge(state, u)
             /\ pc' = build_graph("parallel_analysts", Merge(state, u))
             /\ env' = [kind |-> "parallel_analysts", status |-> status,
                         results |-> [name \in {n \in DOMAIN results :
                                                    InList(n, TaskNames(state))}
                                        |-> results[name]]]
             /\ verdict' = IF status.critic # "returned" THEN status.critic
                           ELSE IF critic.update.veto THEN "veto" ELSE "clear"
    /\ last' = "parallel_analysts"
    /\ trace' = Capped(trace, "parallel_analysts")

\* parallel_analysts -> synthesiser -> END
Synthesiser ==
    /\ pc = "synthesiser"
    /\ update' = synthesiser_node(state)
    /\ state' = Merge(state, synthesiser_node(state))
    /\ pc' = build_graph("synthesiser", state')
    /\ last' = "synthesiser"
    /\ env' = NoEnv
    /\ trace' = Capped(trace, "synthesiser")
    /\ UNCHANGED verdict

\* asyncio.wait_for(..., timeout=_PIPELINE_TIMEOUT) expires while a node runs:
\* the handler raises 504 and the state of the run is dropped with it
GlobalTimeout ==
    /\ pc \in Running
    /\ pc' = "timed_out"
    /\ state' = EmptyMap
    /\ update' = EmptyMap
    /\ env' = NoEnv
    /\ UNCHANGED <<last, trace, verdict>>

Step == Commander \/ Scout \/ ParallelAnalysts \/ Synthesiser

Next == Step \/ GlobalTimeout

Spec == Init /\ [][Next]_vars

\* The event loop always runs the node the executor scheduled: while a node is
\* due and the deadline has not fired, control does pass to a following node.
\* (Every state with a node due has a Step, so this is fairness of Step; it is
\* stated on pc, which every Step changes.)
Advance == pc \in Running /\ pc' \in Running \cup {"END"} /\ pc' # pc

FairSpec == Spec /\ WF_pc(Advance)

\* ------------------------------------------ the fan-out, one task at a time
\* The same node with its three tasks interleaved.  A value of the state that
\* is a list or a dict is an object; state.copy() copies the top-level dict,
\* so a copy binds each key to the object the original binds it to.  An
\* object is named by the dict and key that first bound it.
MutableKeys == {"candidate_venues", "parsed_intent"}

\* Most writes the analyzers make to their snapshots in one fan-out.
MaxWrites == 2

\* The states the node can be entered with on the first pass
FanOutSnapshots ==
    {Merge(Merge(InitialStateWS, PlanUpdate(p, <<>>)), scout_node(InitialStateWS, found)) :
        p \in {PlanAll, PlanCost, PlanNoAgents, PlanBare}, found \in ScoutResults}

\* The objects a state's values are, and the bindings of its keys to them
ObjectsOf(s) == [r \in {<<"state", k>> : k \in MutableKeys \cap DOMAIN s} |-> s[r[2]]]
BindingsOf(s) == [k \in MutableKeys \cap DOMAIN s |-> <<"state", k>>]

\* dict.copy(): a new dict with the same bindings
copy(bindings) == [k \in DOMAIN bindings |-> bindings[k]]

\* What a reader of the dict with these bindings sees
View(s, bindings, objects) == Merge(s, [k \in DOMAIN bindings |-> objects[bindings[k]]])

Reverse(seq) == [i \in 1..Len(seq) |-> seq[Len(seq) + 1 - i]]

\* A change an analyzer makes to a value: it reorders the candidates, or
\* notes something in the intent
Mutate(k, content, name) ==
    IF k = "candidate_venues" THEN Reverse(content)
    ELSE Merge(content, [noted_by |-> name])

\* asyncio.gather as it would be if it handed the results back in the order
\* the tasks completed
gather_as_completed(task_names, order, results) ==
    [name \in {task_names[i] : i \in 1..Len(task_names)} |->
        LET i == CHOOSE j \in 1..Len(task_names) : task_names[j] = name
        IN  results[order[i]]]

\* asyncio.gather(*tasks, return_exceptions=True): the results in the order
\* of the tasks, whatever the order they completed in
gather(task_names, order, results) ==
    [name \in {task_names[i] : i \in 1..Len(task_names)} |-> results[name]]

FanOutInit ==
    /\ state \in FanOutSnapshots
    /\ pc = "fan_out"
    /\ last = "none"
    /\ update = EmptyMap
    /\ env = [kind |-> "fan_out", snapshot |-> state, objects |-> ObjectsOf(state),
              copies |-> EmptyMap, written |-> {}, results |-> EmptyMap]
    /\ trace = <<>>
    /\ verdict = "none"

Unfinished == {n \in DOMAIN env.copies : n \notin DOMAIN env.results}

\* lines 43-59: one copy per task built; no task, empty update
BuildTasks ==
    /\ pc = "fan_out"
    /\ LET names == TaskNames(state)
       IN  IF names = <<>>
           THEN /\ pc' = "merged"
                /\ env' = env
           ELSE /\ pc' = "gathering"
                /\ env' = [env EXCEPT !.copies =
                            [n \in {names[i] : i \in 1..Len(names)} |->
                                copy(BindingsOf(state))]]
    /\ UNCHANGED <<state, last, update, trace, verdict>>

\* a running analyzer changes, in place, the value its snapshot has at key k
AnalystWritesNested ==
    /\ pc = "gathering"
    /\ Cardinality(env.written) < MaxWrites
    /\ \E name \in Unfinished : \E k \in DOMAIN env.copies[name] :
         /\ <<name, k>> \notin env.written
         /\ LET ref == env.copies[name][k]
                objects == [env.objects EXCEPT ![ref] = Mutate(k, @, name)]
            IN  /\ env' = [env EXCEPT !.objects = objects,
                                      !.written = @ \cup {<<name, k>>}]
                /\ state' = View(state, BindingsOf(env.snapshot), objects)
         /\ last' = name
    /\ UNCHANGED <<pc, update, trace, verdict>>

\* a running analyzer assigns a new value to key k of its snapshot
AnalystWritesKey ==
    /\ pc = "gathering"
    /\ Cardinality(env.written) < MaxWrites
    /\ \E name \in Unfinished : \E k \in DOMAIN env.copies[name] :
         /\ <<name, k>> \notin env.written
         /\ LET ref == <<name, k>>
                content == Mutate(k, env.objects[env.copies[name][k]], name)
            IN  env' = [env EXCEPT !.objects = Merge(@, [r \in {ref} |-> content]),
                                   !.copies[name][k] = ref,
                                   !.written = @ \cup {<<name, k>>}]
         /\ last' = name
    /\ UNCHANGED <<state, pc, update, trace, verdict>>

\* what the analyzer name can end as, working on the snapshot it sees
AnalystResults(name, s) ==
    IF name = "vibe_matcher" THEN {Failed, Returned(vibe_matcher_node(s))}
    ELSE IF name = "cost_analyst" THEN {Failed, Returned(cost_analyst_node(s))}
    ELSE CriticResultsFrom(s, {VenueTimeout, VenueAnalysis(AnalysisFastFail)})

\* a task completes, or its wait_for expires
AnalystFinishes ==
    /\ pc = "gathering"
    /\ \E name \in Unfinished :
         \E res \in AnalystResults(name,
                        View(env.snapshot, env.copies[name], env.objects)) :
            /\ env' = [env EXCEPT !.results = Merge(@, [n \in {name} |-> res])]
            /\ trace' = Append(trace, name)
            /\ last' = name
    /\ UNCHANGED <<state, pc, update, verdict>>

\* lines 62-88: gather returns when every task is done; the merge
GatherAndMerge ==
    /\ pc = "gathering"
    /\ Unfinished = {}
    /\ LET names == TaskNames(env.snapshot)
           u == parallel_analysts_node(env.snapshot, gather(names, trace, env.results))
       IN  /\ update' = u
           /\ state' = Merge(state, u)
    /\ pc' = "merged"
    /\ last' = "parallel_analysts"
    /\ UNCHANGED <<env, trace, verdict>>

FanOutNext ==
    BuildTasks \/ AnalystWritesNested \/ AnalystWritesKey \/ AnalystFinishes
        \/ GatherAndMerge

FanOutSpec == FanOutInit /\ [][FanOutNext]_vars

\* ----------------------------------------------------------- the transports
\* What the node due can return on the state s
NodeUpdatesWith(node, s, responses) ==
    IF node = "commander"
    THEN {commander_node(s, resp, context).update :
            resp \in responses, context \in RunMemoryResults}
    ELSE IF node = "scout"
    THEN {scout_node(s, found) : found \in ScoutResults}
    ELSE IF node = "parallel_analysts"
    THEN {parallel_analysts_node(s,
                [vibe_matcher |-> vibe, critic |-> critic, cost_analyst |-> cost]) :
            critic \in CriticTaskResults(s),
            vibe \in {Failed, Returned(vibe_matcher_node(s))},
            cost \in {Failed, Returned(cost_analyst_node(s))}}
    ELSE {synthesiser_node(s)}

NodeUpdates(node, s) == NodeUpdatesWith(node, s, RunLLMResponses)

NODE_LABELS ==
    [commander |-> "Parsing your request...",
     scout |-> "Discovering venues...",
     parallel_analysts |-> "Analysing vibes, cost & risks...",
     vibe_matcher |-> "Analysing vibes...",
     cost_analyst |-> "Calculating costs...",
     critic |-> "Running risk assessment...",
     synthesiser |-> "Ranking results..."]

\* the label lookup as it would be without the mapping
NodeLabel_is_name(node_name) == node_name

\* NODE_LABELS.get(node_name, node_name)
NodeLabel(node_name) ==
    IF node_name \in DOMAIN NODE_LABELS THEN NODE_LABELS[node_name] ELSE node_name

ProgressEvent(node_name) ==
    [type |-> "progress", node |-> node_name, label |-> NodeLabel(node_name)]

TimeoutEvent ==
    [type |-> "error", message |-> "Pipeline timed out - please try a simpler query."]

ErrorEvent ==
    [type |-> "error", message |-> "An internal error occurred. Please try again."]

ResultEvent(accumulated) ==
    [type |-> "result",
     data |-> [venues |-> Get(accumulated, "ranked_results", <<>>),
               execution_summary |-> "Pipeline complete."]]

\* websocket.send_json: the event goes out while the client is connected; to
\* a client that has gone it raises, the handlers' own sends raise again, and
\* nothing is sent
send_json(ws, event) ==
    IF ws.connected THEN [ws EXCEPT !.sent = Append(@, event)] ELSE ws

\* finally: websocket.close()
close(ws) == [ws EXCEPT !.closed = TRUE]

\* GET /ws/plan after the client's message was received
WsInit ==
    /\ state = InitialStateWS
    /\ pc = EntryPoint
    /\ last = "none"
    /\ update = EmptyMap
    /\ env = [kind |-> "websocket", accumulated |-> InitialStateWS, sent |-> <<>>,
              connected |-> TRUE, closed |-> FALSE]
    /\ trace = <<>>
    /\ verdict = "none"

\* the client goes away; the server notices at its next send
ClientDisconnects ==
    /\ pc \in Running \cup {"END"}
    /\ env.connected
    /\ env' = [env EXCEPT !.connected = FALSE]
    /\ UNCHANGED <<state, pc, last, update, trace, verdict>>

\* the loop as it would be if a failed send were swallowed
WsNodeCompletes_ignores_send_failure ==
    /\ pc \in Running
    /\ Len(trace) < MaxTrace
    /\ \E node_data \in NodeUpdates(pc, state) :
         LET ws == [env EXCEPT !.accumulated = Merge(@, node_data)]
         IN  /\ update' = node_data
             /\ state' = Merge(state, node_data)
             /\ env' = send_json(ws, ProgressEvent(pc))
             /\ pc' = build_graph(pc, Merge(state, node_data))
    /\ last' = pc
    /\ trace' = Append(trace, pc)
    /\ UNCHANGED verdict

\* astream yields the event of the node that finished: lines 121-130; a send
\* to a client that went away raises out of the loop to the handlers of
\* lines 141-147 and 159-171
WsNodeCompletes ==
    /\ pc \in Running
    /\ Len(trace) < MaxTrace
    /\ \E node_data \in NodeUpdates(pc, state) :
         LET ws == [env EXCEPT !.accumulated = Merge(@, node_data)]
         IN  /\ update' = node_data
             /\ state' = Merge(state, node_data)
             /\ env' = IF ws.connected THEN send_json(ws, ProgressEvent(pc))
                                       ELSE close(ws)
             /\ pc' = IF ws.connected THEN build_graph(pc, Merge(state, node_data))
                                      ELSE "disconnected"
    /\ last' = pc
    /\ trace' = Append(trace, pc)
    /\ UNCHANGED verdict

\* the timeout handler as it would be without its return
WsTimeout_falls_through ==
    /\ pc \in Running
    /\ pc' = "timed_out"
    /\ env' = close(send_json(send_json(env, TimeoutEvent), ResultEvent(env.accumulated)))
    /\ UNCHANGED <<state, last, update, trace, verdict>>

\* wait_for(_run_pipeline(), _PIPELINE_TIMEOUT) expires: lines 134-140, 167-171
WsTimeout ==
    /\ pc \in Running
    /\ pc' = "timed_out"
    /\ env' = close(send_json(env, TimeoutEvent))
    /\ UNCHANGED <<state, last, update, trace, verdict>>

\* the executor raises while the node due runs: lines 141-147, 167-171
WsExecutorRaises ==
    /\ pc \in Running
    /\ pc' = "failed"
    /\ env' = close(send_json(env, ErrorEvent))
    /\ UNCHANGED <<state, last, update, trace, verdict>>

\* the stream is exhausted: lines 149-157, 167-171
WsResult ==
    /\ pc = "END"
    /\ pc' = IF env.connected THEN "done" ELSE "disconnected"
    /\ env' = close(send_json(env, ResultEvent(env.accumulated)))
    /\ UNCHANGED <<state, last, update, trace, verdict>>

WsNext ==
    ClientDisconnects \/ WsNodeCompletes \/ WsTimeout \/ WsExecutorRaises \/ WsResult

WsSpec == WsInit /\ [][WsNext]_vars

\* the Authorization header a request may carry
Authorizations == {"absent", "valid", "invalid"}

\* POST /plan: a request with and without the optional fields (lines 63-69);
\* create_plan(request: PlanRequest) declares no dependency on the bearer token
PlanInit ==
    /\ \E request \in {[prompt |-> Prompt], [prompt |-> Prompt, vibe |-> "cozy"]},
          authorization \in Authorizations :
         /\ state = IF "vibe" \in DOMAIN request
                    THEN [InitialStatePlan EXCEPT !.parsed_intent = [vibe |-> request.vibe]]
                    ELSE InitialStatePlan
         /\ env = [kind |-> "http", authorization |-> authorization,
                   request |-> request, response |-> [status |-> 0]]
    /\ pc = EntryPoint
    /\ last = "none"
    /\ update = EmptyMap
    /\ trace = <<>>
    /\ verdict = "none"

\* ainvoke runs the node due
PlanNodeCompletes ==
    /\ pc \in Running
    /\ Len(trace) < MaxTrace
    /\ \E u \in NodeUpdates(pc, state) :
         /\ update' = u
         /\ state' = Merge(state, u)
         /\ pc' = build_graph(pc, Merge(state, u))
    /\ last' = pc
    /\ trace' = Append(trace, pc)
    /\ UNCHANGED <<env, verdict>>

\* the timeout handler as it would be if it answered like the general one
PlanTimeout_as_500 ==
    /\ pc \in Running
    /\ pc' = "timed_out"
    /\ env' = [env EXCEPT !.response =
                [status |-> 500, detail |-> "Pipeline failed - please try again."]]
    /\ UNCHANGED <<state, last, update, trace, verdict>>

\* wait_for(ainvoke, _PIPELINE_TIMEOUT) expires: lines 76-78
PlanTimeout ==
    /\ pc \in Running
    /\ pc' = "timed_out"
    /\ env' = [env EXCEPT !.response =
                [status |-> 504, detail |-> "Pipeline timed out - please try again."]]
    /\ UNCHANGED <<state, last, update, trace, verdict>>

\* the executor raises while the node due runs: lines 79-81
PlanExecutorRaises ==
    /\ pc \in Running
    /\ pc' = "failed"
    /\ env' = [env EXCEPT !.response =
                [status |-> 500, detail |-> "Pipeline failed - please try again."]]
    /\ UNCHANGED <<state, last, update, trace, verdict>>

\* ainvoke returned the final state: lines 83-86
PlanResponds ==
    /\ pc = "END"
    /\ pc' = "done"
    /\ env' = [env EXCEPT !.response =
                [status |-> 200,
                 venues |-> Get(state, "ranked_results", <<>>),
                 execution_summary |-> "Pipeline complete."]]
    /\ UNCHANGED <<state, last, update, trace, verdict>>

PlanNext == PlanNodeCompletes \/ PlanTimeout \/ PlanExecutorRaises \/ PlanResponds

PlanSpec == PlanInit /\ [][PlanNext]_vars

\* ---------------------------------------------------------------------
\* A run whose LLM changes its plan between the passes
\* ---------------------------------------------------------------------

\* the LLM answers with the full plan or with the Critic-only plan
ReplanResponses ==
    {[kind |-> "text", fence |-> "none", body |-> [json |-> "object", obj |-> p]] :
        p \in {PlanAll, PlanCritic}}

ReplanInit ==
    /\ state = InitialStateWS
    /\ pc = EntryPoint
    /\ last = "none"
    /\ update = EmptyMap
    /\ env = [kind |-> "replan"]
    /\ trace = <<>>
    /\ verdict = "none"

\* the executor runs the node due and merges its update
ReplanNodeCompletes ==
    /\ pc \in Running
    /\ Len(trace) < MaxTrace
    /\ \E u \in NodeUpdatesWith(pc, state, ReplanResponses) :
         /\ update' = u
         /\ state' = Merge(state, u)
         /\ pc' = build_graph(pc, Merge(state, u))
    /\ last' = pc
    /\ trace' = Append(trace, pc)
    /\ UNCHANGED <<env, verdict>>

ReplanNext == ReplanNodeCompletes

ReplanSpec == ReplanInit /\ [][ReplanNext]_vars

\* ---------------------------------------------------------------------
\* Bearer-token verification: dependencies.py and services/auth0.py
\* ---------------------------------------------------------------------

\* requests verified concurrently on the one event loop
MaxVerifications == 2

Verifications == 1..MaxVerifications

\* what a presented token is, as jose and the key lookup tell them apart
Tokens ==
    {"valid", "bad_signature", "expired", "wrong_audience", "wrong_issuer",
     "unknown_kid", "malformed"}

\* HTTPBearer(auto_error=False): no credentials, or the token presented
Credentials == {None} \cup Tokens

\* the key set the provider serves; it may rotate between two fetches
JwksDocuments == {[keys |-> <<"kid_1">>], [keys |-> <<"kid_1", "kid_2">>]}

\* kid of the token's unverified header
Kid(token) == IF token = "unknown_kid" THEN "kid_0" ELSE "kid_1"

Claims(payload) == [kind |-> "claims", claims |-> payload]

HTTPException(status_code, detail) ==
    [kind |-> "HTTPException", status_code |-> status_code, detail |-> detail]

\* verify_jwt after the key set was obtained: lines 54-83
decode(token, jwks) ==
    IF token = "malformed"
    THEN HTTPException(401, "Invalid or expired token")
    ELSE IF ~InList(Kid(token), jwks.keys)
    THEN HTTPException(401, "Unable to find matching JWT key")
    ELSE IF token = "valid"
    THEN Claims([sub |-> "auth0|abc123"])
    ELSE HTTPException(401, "Invalid or expired token")

\* _jwks_cache: Optional[dict], held as a sequence of at most one document
NoJwks == <<>>

AuthInit ==
    /\ state \in [Verifications -> [credentials : Credentials]]
    /\ pc = [i \in Verifications |-> "get_optional_user"]
    /\ update = [i \in Verifications |-> [kind |-> "pending", verifier |-> FALSE]]
    /\ \E configured \in BOOLEAN :
         env = [kind |-> "auth", configured |-> configured, _jwks_cache |-> NoJwks]
    /\ trace = <<>>
    /\ last = "none"
    /\ verdict = "none"

\* get_optional_user: lines 29-31
GetOptionalUser(i) ==
    /\ pc[i] = "get_optional_user"
    /\ IF state[i].credentials = None
       THEN /\ pc' = [pc EXCEPT ![i] = "returned"]
            /\ update' = [update EXCEPT ![i] = Claims(EmptyMap) @@ [verifier |-> FALSE]]
       ELSE /\ pc' = [pc EXCEPT ![i] = "verify_jwt"]
            /\ update' = [update EXCEPT ![i].verifier = TRUE]
    /\ UNCHANGED <<state, last, env, trace, verdict>>

VerifyJwt_fetches_first(i) ==
    /\ pc[i] = "verify_jwt"
    /\ IF  env._jwks_cache # NoJwks
       THEN /\ pc' = [pc EXCEPT ![i] = "returned"]
            /\ update' = [update EXCEPT ![i] =
                    decode(state[i].credentials, env._jwks_cache[1]) @@ [verifier |-> TRUE]]
            /\ UNCHANGED trace
       ELSE /\ pc' = [pc EXCEPT ![i] = "client.get"]
            /\ trace' = Append(trace, i)
            /\ UNCHANGED update
    /\ UNCHANGED <<state, last, env, verdict>>

\* verify_jwt up to its first await: lines 48-53, 26-32
VerifyJwt(i) ==
    /\ pc[i] = "verify_jwt"
    /\ IF ~env.configured
       THEN /\ pc' = [pc EXCEPT ![i] = "returned"]
            /\ update' = [update EXCEPT ![i] = Claims(EmptyMap) @@ [verifier |-> TRUE]]
            /\ UNCHANGED trace
       ELSE IF  env._jwks_cache # NoJwks
       THEN /\ pc' = [pc EXCEPT ![i] = "returned"]
            /\ update' = [update EXCEPT ![i] =
                    decode(state[i].credentials, env._jwks_cache[1]) @@ [verifier |-> TRUE]]
            /\ UNCHANGED trace
       ELSE /\ pc' = [pc EXCEPT ![i] = "client.get"]
            /\ trace' = Append(trace, i)
            /\ UNCHANGED update
    /\ UNCHANGED <<state, last, env, verdict>>

\* the fetch answers and the key set is cached: lines 32-36, then 54-83
JwksFetched(i) ==
    /\ pc[i] = "client.get"
    /\ \E jwks \in JwksDocuments :
         /\ env' = [env EXCEPT !._jwks_cache = <<jwks>>]
         /\ update' = [update EXCEPT ![i] =
                 decode(state[i].credentials, jwks) @@ [verifier |-> TRUE]]
    /\ pc' = [pc EXCEPT ![i] = "returned"]
    /\ UNCHANGED <<state, last, trace, verdict>>

\* the fetch fails: lines 37-39
JwksFetchFails(i) ==
    /\ pc[i] = "client.get"
    /\ update' = [update EXCEPT ![i] =
            HTTPException(503, "Auth service unavailable") @@ [verifier |-> TRUE]]
    /\ pc' = [pc EXCEPT ![i] = "returned"]
    /\ UNCHANGED <<state, last, env, trace, verdict>>

AuthNext ==
    \E i \in Verifications :
        GetOptionalUser(i) \/ VerifyJwt(i) \/ JwksFetched(i) \/ JwksFetchFails(i)

AuthSpec == AuthInit /\ [][AuthNext]_vars

\* ---------------------------------------------------------------------
\* The global deadline and the tasks in flight when it expires
\* ---------------------------------------------------------------------

Task(mode, calls) == [mode |-> mode, calls |-> calls]

\* What runs while a node is due, and the calls each task still has to make.
\* commander_node is a plain function that calls asyncio.run itself
\* (commander.py:65), so the executor runs it on a worker thread, and
\* cost_analyst_node is handed to asyncio.to_thread (graph.py:54); the other
\* nodes are coroutines, suspended at their awaits.
TasksOf(node, s) ==
    IF node = "commander"
    THEN [commander |-> Task("thread", <<"generate_content", "cortex_search">>)]
    ELSE IF node = "scout"
    THEN [scout |-> Task("coroutine", <<"await">>)]
    ELSE IF node = "synthesiser"
    THEN [synthesiser |-> Task("coroutine", <<"await">>)]
    ELSE IF node = "parallel_analysts"
    THEN LET all == [vibe_matcher |-> Task("coroutine", <<"await">>),
                     critic |-> Task("coroutine",
                                     IF Get(s, "candidate_venues", <<>>) = <<>>
                                     THEN <<>>
                                     ELSE <<"get_weather, get_events", "generate_content">>),
                     cost_analyst |-> Task("thread", <<"cost_analyst_node">>)]
         IN  [name \in {n \in DOMAIN all : InList(n, TaskNames(s))} |-> all[name]]
    ELSE EmptyMap

\* asyncio cancellation: a coroutine gets CancelledError at its await and
\* is gone; a function running on a worker thread is not interrupted
cancel(inflight) ==
    [name \in {n \in DOMAIN inflight : inflight[n].mode = "thread"} |-> inflight[name]]

DeadlineInit ==
    /\ state = InitialStateWS
    /\ pc = EntryPoint
    /\ last = "none"
    /\ update = EmptyMap
    /\ env = [kind |-> "deadline", inflight |-> TasksOf(EntryPoint, InitialStateWS),
              late |-> <<>>]
    /\ trace = <<>>
    /\ verdict = "none"

\* a task in flight makes its next call
TaskSteps ==
    /\ pc \in Running \cup {"timed_out"}
    /\ \E name \in DOMAIN env.inflight :
         /\ env.inflight[name].calls # <<>>
         /\ env' = [env EXCEPT
                      !.inflight[name].calls = Tail(@),
                      !.late = IF pc = "timed_out"
                               THEN Append(@, <<name, Head(env.inflight[name].calls)>>)
                               ELSE @]
    /\ UNCHANGED <<state, pc, last, update, trace, verdict>>

\* every task of the node due has finished: the executor merges the node's
\* update and starts the node the edges give
DeadlineNodeCompletes ==
    /\ pc \in Running
    /\ Len(trace) < MaxTrace
    /\ \A name \in DOMAIN env.inflight : env.inflight[name].calls = <<>>
    /\ \E u \in NodeUpdates(pc, state) :
         /\ update' = u
         /\ state' = Merge(state, u)
         /\ pc' = build_graph(pc, Merge(state, u))
         /\ env' = [env EXCEPT
                      !.inflight = TasksOf(build_graph(pc, Merge(state, u)), Merge(state, u))]
    /\ last' = pc
    /\ trace' = Append(trace, pc)
    /\ UNCHANGED verdict

\* wait_for(..., timeout=_PIPELINE_TIMEOUT) expires: the run's task is
\* cancelled and the timeout error is surfaced (routes.py:76-78, 134-140)
DeadlineExpires ==
    /\ pc \in Running
    /\ pc' = "timed_out"
    /\ verdict' = "Pipeline timed out"
    /\ env' = [env EXCEPT !.inflight = cancel(@)]
    /\ UNCHANGED <<state, last, update, trace>>

DeadlineNext == TaskSteps \/ DeadlineNodeCompletes \/ DeadlineExpires

DeadlineSpec == DeadlineInit /\ [][DeadlineNext]_vars

\* ---------------------------------------------------------------------
\* Two runs of the executor over the same collaborator stubs
\* ---------------------------------------------------------------------

Runs == {"a", "b"}

\* Deterministic collaborators: the LLM answers the Commander's prompt with
\* llm, the memory search with memory, the catalogs with found, the Critic's
\* per-venue analysis of venue v1 ends as venue (every other venue's as the
\* default analysis), and the two analyzers outside the Critic return or fail.
Stubs ==
    [llm : RunLLMResponses, memory : RunMemoryResults, found : ScoutResults,
     venue : RunVenueResults, vibe_ok : BOOLEAN, cost_ok : BOOLEAN]

\* the orders in which the tasks of one fan-out can complete
CompletionOrders(task_names) ==
    LET names == {task_names[i] : i \in 1..Len(task_names)}
    IN  {o \in [1..Len(task_names) -> names] : \A n \in names : \E i \in DOMAIN o : o[i] = n}

\* what the three tasks end as over the stubs
StubbedResults(s, stubs) ==
    LET candidates == Get(s, "candidate_venues", <<>>)
        raw == [i \in 1..Min(3, Len(candidates)) |->
                    IF candidates[i] = "v1" THEN stubs.venue
                    ELSE VenueAnalysis(DefaultAnalysis)]
        o == critic_node(s, raw)
    IN  [vibe_matcher |-> IF stubs.vibe_ok THEN Returned(vibe_matcher_node(s)) ELSE Failed,
         cost_analyst |-> IF stubs.cost_ok THEN Returned(cost_analyst_node(s)) ELSE Failed,
         critic |-> IF o.raised THEN Failed ELSE Returned(o.update)]

\* the node due over the stubs, its tasks completing in the order given
StubbedNode(node, s, stubs, order) ==
    IF node = "commander"
    THEN commander_node(s, stubs.llm, stubs.memory)
    ELSE [raised |-> FALSE,
          update |->
            IF node = "scout" THEN scout_node(s, stubs.found)
            ELSE IF node = "parallel_analysts"
            THEN parallel_analysts_node(s,
                    gather(TaskNames(s), order, StubbedResults(s, stubs)))
            ELSE synthesiser_node(s)]

TwinInit ==
    /\ state = [r \in Runs |-> InitialStateWS]
    /\ pc = [r \in Runs |-> EntryPoint]
    /\ update = [r \in Runs |-> EmptyMap]
    /\ trace = [r \in Runs |-> <<>>]
    /\ verdict = [r \in Runs |-> <<>>]
    /\ last = "none"
    /\ \E stubs \in Stubs : env = [kind |-> "twin", stubs |-> stubs]

\* one of the runs completes the node it is at
TwinNodeCompletes ==
    \E r \in Runs :
        /\ pc[r] \in Running
        /\ Len(trace[r]) < MaxTrace
        /\ \E order \in (IF pc[r] = "parallel_analysts"
                          THEN CompletionOrders(TaskNames(state[r])) ELSE {<<>>}) :
             LET out == StubbedNode(pc[r], state[r], env.stubs, order)
                 s == IF out.raised THEN state[r] ELSE Merge(state[r], out.update)
             IN  /\ update' = [update EXCEPT ![r] = out.update]
                 /\ state' = [state EXCEPT ![r] = s]
                 /\ pc' = [pc EXCEPT ![r] = IF out.raised THEN "failed"
                                             ELSE build_graph(pc[r], s)]
                 /\ verdict' = [verdict EXCEPT ![r] =
                                    IF pc[r] = "parallel_analysts" THEN order ELSE @]
        /\ trace' = [trace EXCEPT ![r] = Append(@, pc[r])]
        /\ last' = r
        /\ UNCHANGED env

TwinNext == TwinNodeCompletes

TwinSpec == TwinInit /\ [][TwinNext]_vars

\* ---------------------------------------------------------------------
\* The same prompt sent to POST /plan and to /ws/plan
\* ---------------------------------------------------------------------
Transports == {"plan", "ws"}

\* the passes a script answers: the first, and the one after a retry
Passes == {1, 2}

\* Deterministic collaborators that answer call by call: the catalogs and the
\* Critic's analysis of venue v1 have one answer for each pass (the last one
\* repeats), the LLM and the memory search one answer, and the two analyzers
\* outside the Critic return.
Scripts ==
    [llm : RunLLMResponses, memory : RunMemoryResults,
     found : [Passes -> ScoutResults], venue : [Passes -> RunVenueResults]]

\* the stubs the node due on transport t meets
StubsAt(t) ==
    [llm |-> env.stubs.llm,
     memory |-> env.stubs.memory,
     found |-> env.stubs.found[Min(2, Count(trace[t], "scout") + 1)],
     venue |-> env.stubs.venue[Min(2, Count(trace[t], "parallel_analysts") + 1)],
     vibe_ok |-> TRUE,
     cost_ok |-> TRUE]

\* create_plan (routes.py 42-61) and websocket_plan (routes.py 99-118) build
\* their initial states; both graphs run over the same collaborators
TransportsInit ==
    /\ state = [plan |-> InitialStatePlan, ws |-> InitialStateWS]
    /\ pc = [t \in Transports |-> EntryPoint]
    /\ update = [t \in Transports |-> EmptyMap]
    /\ trace = [t \in Transports |-> <<>>]
    /\ last = "none"
    /\ verdict = "none"
    /\ \E stubs \in Scripts :
         env = [kind |-> "transports", stubs |-> stubs, response |-> [status |-> 0],
                accumulated |-> InitialStateWS, sent |-> <<>>,
                connected |-> TRUE, closed |-> FALSE]

\* ainvoke runs the node due; a node that raises ends the request with 500
PostNodeCompletes ==
    /\ pc.plan \in Running
    /\ Len(trace.plan) < MaxTrace
    /\ \E order \in (IF pc.plan = "parallel_analysts"
                      THEN CompletionOrders(TaskNames(state.plan)) ELSE {<<>>}) :
         LET out == StubbedNode(pc.plan, state.plan, StubsAt("plan"), order)
         IN  IF out.raised
             THEN /\ pc' = [pc EXCEPT !.plan = "failed"]
                  /\ env' = [env EXCEPT !.response =
                        [status |-> 500, detail |-> "Pipeline failed - please try again."]]
                  /\ UNCHANGED <<state, update>>
             ELSE /\ update' = [update EXCEPT !.plan = out.update]
                  /\ state' = [state EXCEPT !.plan = Merge(@, out.update)]
                  /\ pc' = [pc EXCEPT !.plan =
                                build_graph(pc.plan, Merge(state.plan, out.update))]
                  /\ UNCHANGED env
    /\ trace' = [trace EXCEPT !.plan = Append(@, pc.plan)]
    /\ last' = "plan"
    /\ UNCHANGED verdict

\* ainvoke returned the final state: routes.py 83-86
PostResponds ==
    /\ pc.plan = "END"
    /\ pc' = [pc EXCEPT !.plan = "done"]
    /\ env' = [env EXCEPT !.response =
                [status |-> 200,
                 venues |-> Get(state.plan, "ranked_results", <<>>),
                 execution_summary |-> "Pipeline complete."]]
    /\ last' = "plan"
    /\ UNCHANGED <<state, update, trace, verdict>>

\* the loop as it would be if accumulated kept the first value of each key
StreamNodeCompletes_keeps_first ==
    /\ pc.ws \in Running
    /\ Len(trace.ws) < MaxTrace
    /\ \E order \in (IF pc.ws = "parallel_analysts"
                      THEN CompletionOrders(TaskNames(state.ws)) ELSE {<<>>}) :
         LET out == StubbedNode(pc.ws, state.ws, StubsAt("ws"), order)
         IN  IF out.raised
             THEN /\ pc' = [pc EXCEPT !.ws = "failed"]
                  /\ env' = close(send_json(env, ErrorEvent))
                  /\ UNCHANGED <<state, update>>
             ELSE /\ update' = [update EXCEPT !.ws = out.update]
                  /\ state' = [state EXCEPT !.ws = Merge(@, out.update)]
                  /\ pc' = [pc EXCEPT !.ws =
                                build_graph(pc.ws, Merge(state.ws, out.update))]
                  /\ env' = send_json([env EXCEPT !.accumulated = Merge(out.update, @)],
                                      ProgressEvent(pc.ws))
    /\ trace' = [trace EXCEPT !.ws = Append(@, pc.ws)]
    /\ last' = "ws"
    /\ UNCHANGED verdict

\* astream yields the update of the node that finished, the handler folds it
\* into accumulated and sends the progress event: routes.py 120-130; a node
\* that raises ends the stream with the error event: routes.py 141-147
StreamNodeCompletes ==
    /\ pc.ws \in Running
    /\ Len(trace.ws) < MaxTrace
    /\ \E order \in (IF pc.ws = "parallel_analysts"
                      THEN CompletionOrders(TaskNames(state.ws)) ELSE {<<>>}) :
         LET out == StubbedNode(pc.ws, state.ws, StubsAt("ws"), order)
         IN  IF out.raised
             THEN /\ pc' = [pc EXCEPT !.ws = "failed"]
                  /\ env' = close(send_json(env, ErrorEvent))
                  /\ UNCHANGED <<state, update>>
             ELSE /\ update' = [update EXCEPT !.ws = out.update]
                  /\ state' = [state EXCEPT !.ws = Merge(@, out.update)]
                  /\ pc' = [pc EXCEPT !.ws =
                                build_graph(pc.ws, Merge(state.ws, out.update))]
                  /\ env' = send_json([env EXCEPT !.accumulated = Merge(@, out.update)],
                                      ProgressEvent(pc.ws))
    /\ trace' = [trace EXCEPT !.ws = Append(@, pc.ws)]
    /\ last' = "ws"
    /\ UNCHANGED verdict

\* the stream is exhausted: routes.py 149-157, 167-171
StreamResult ==
    /\ pc.ws = "END"
    /\ pc' = [pc EXCEPT !.ws = "done"]
    /\ env' = close(send_json(env, ResultEvent(env.accumulated)))
    /\ last' = "ws"
    /\ UNCHANGED <<state, update, trace, verdict>>

TransportsNext ==
    PostNodeCompletes \/ PostResponds \/ StreamNodeCompletes \/ StreamResult

TransportsSpec == TransportsInit /\ [][TransportsNext]_vars


\* ================================================================ claims
RetryCount == Get(state, "retry_count", 0)
VetoSet(s) == Get(s, "veto", FALSE) \/ Get(s, "fast_fail", FALSE)
Entries == Count(trace, "commander")
Pass == <<"commander", "scout", "parallel_analysts">>

\* C1: in every run the Commander node is entered at most twice, whatever the
\* Critic answers on each pass.
C1_CommanderAtMostTwice == Entries <= 2

\* C2: every run that the global deadline does not cut off eventually runs
\* the Synthesiser and reaches END.
C2_ReachesEnd == <>(pc = "timed_out" \/ (pc = "END" /\ last = "synthesiser"))

\* C3: the conditional edge goes to the Commander exactly when fast_fail or
\* veto is true and retry_count (0 when absent) is below 1, and to the
\* Synthesiser in every other case.
C3_RetryEdge ==
    last = "_should_retry" =>
        LET signalled == \E k \in {"fast_fail", "veto"} : k \in DOMAIN state /\ state[k]
            spent == "retry_count" \in DOMAIN state /\ state.retry_count >= 1
        IN  /\ signalled /\ ~spent => pc = "commander"
            /\ ~signalled \/ spent => pc = "synthesiser"

C3_Witness ==
    /\ last = "_should_retry"
    /\ pc = "commander"
    /\ "retry_count" \notin DOMAIN state
    /\ "veto" \in DOMAIN state
    /\ ~state.veto

\* C4: after any execution of the Commander the state has veto and fast_fail
\* false and both reasons cleared.
C4_CommanderClearsVeto ==
    last = "commander" /\ pc = "scout" =>
        /\ ~Get(state, "veto", FALSE)
        /\ ~Get(state, "fast_fail", FALSE)
        /\ Get(state, "veto_reason", None) = None
        /\ Get(state, "fast_fail_reason", None) = None

\* C5: the Commander adds exactly 1 to retry_count when it is entered with
\* veto or fast_fail set, and leaves retry_count as it was otherwise.
C5_CommanderCountsRetry ==
    [][pc = "commander" /\ pc' = "scout" =>
        Get(state', "retry_count", 0)
            = Get(state, "retry_count", 0) + (IF VetoSet(state) THEN 1 ELSE 0)]_vars

\* C6: when the Critic vetoes on the first pass and not on the second, the
\* second pass is followed by the Synthesiser, the Commander has been entered
\* exactly twice, and the final state has retry_count = 1.
C6_OneRetryRun ==
    Entries = 2 /\ verdict = "clear" =>
        /\ last = "parallel_analysts" /\ pc # "timed_out" => pc = "synthesiser"
        /\ pc = "END" => RetryCount = 1

\* C7: in a run started with retry_count = 0 (or without it), retry_count is
\* at most 1 in every state and never decreases from a state to the next.
C7_RetryCountBounded ==
    /\ RetryCount <= 1
    /\ [][/\ Get(state', "retry_count", 0) <= 1
          /\ pc' # "timed_out" =>
                Get(state', "retry_count", 0) >= Get(state, "retry_count", 0)]_vars

C7_Witness == pc = "END" /\ Entries = 2 /\ RetryCount <= 1

\* C8: after every Commander execution active_agents contains scout,
\* whatever the LLM answered.
C8_ScoutAlwaysActive ==
    last = "commander" /\ pc = "scout" => InList("scout", state.active_agents)

\* C9: when the LLM call raises, returns None, or returns text that does not
\* parse to a plan object, the Commander returns exactly the fallback plan;
\* and it never raises.
C9_FallbackPlan ==
    last = "commander" =>
        /\ pc # "raised"
        /\ \/ env.llm.kind \in {"raises", "null"}
           \/ env.llm.kind = "text" /\ env.llm.fence = "plain_fence"
           \/ env.llm.kind = "text" /\ env.llm.body.json # "object"
           => update = [parsed_intent |-> EmptyMap,
                        complexity_tier |-> "tier_1",
                        active_agents |-> <<"scout">>,
                        agent_weights |-> [scout |-> 10],
                        snowflake_context |-> <<>>]

C9_Witness ==
    /\ last = "commander"
    /\ pc = "returned"
    /\ env.llm.kind = "null"
    /\ env.memory # <<>>
    /\ update.complexity_tier = "tier_1"

AnalystKeys ==
    [vibe_matcher |-> {"vibe_scores"},
     cost_analyst |-> {"cost_profiles"},
     critic |-> {"risk_flags", "fast_fail", "fast_fail_reason", "veto", "veto_reason"}]

C11_ActivationRule ==
    env.kind = "parallel_analysts" =>
        LET active == Get(state, "active_agents", <<>>)
            listed(name) == \E i \in 1..Len(active) : active[i] = name
        IN  /\ \A name \in DOMAIN AnalystKeys :
                /\ env.status[name] # "skipped" <=> (Len(active) = 0 \/ listed(name))
                /\ env.status[name] = "skipped" => AnalystKeys[name] \cap DOMAIN update = {}
            /\ (\A name \in DOMAIN AnalystKeys : env.status[name] = "skipped")
                    => DOMAIN update = {}

C11_Witness ==
    /\ env.kind = "parallel_analysts"
    /\ Get(state, "active_agents", <<"x">>) = <<>>
    /\ \A name \in DOMAIN AnalystKeys : env.status[name] = "returned"

\* C12: whichever of the activated analyzers fail or time out, ParallelAnalysts
\* returns; its update holds the empty-shaped contribution of each one that
\* failed and the returned update, unmodified, of each one that succeeded.
C12_FailuresIsolated ==
    env.kind = "parallel_analysts" =>
        /\ pc \in {"commander", "synthesiser"}
        /\ env.status.vibe_matcher = "failed" =>
                "vibe_scores" \in DOMAIN update /\ DOMAIN update.vibe_scores = {}
        /\ env.status.cost_analyst = "failed" =>
                "cost_profiles" \in DOMAIN update /\ DOMAIN update.cost_profiles = {}
        /\ env.status.critic = "failed" =>
                /\ AnalystKeys.critic \subseteq DOMAIN update
                /\ DOMAIN update.risk_flags = {}
                /\ update.fast_fail = FALSE /\ update.veto = FALSE
                /\ update.fast_fail_reason = None /\ update.veto_reason = None
        /\ \A name \in DOMAIN AnalystKeys :
              env.status[name] = "returned" =>
                \A k \in DOMAIN env.results[name].update :
                    k \in DOMAIN update /\ update[k] = env.results[name].update[k]

C12_Witness ==
    /\ env.kind = "parallel_analysts"
    /\ \A name \in DOMAIN AnalystKeys : env.status[name] = "failed"
    /\ pc = "synthesiser"

\* C13: the update ParallelAnalysts returns is the same for every order in
\* which its analyzers complete, given the snapshot and what each returned.
Orders(names) ==
    {o \in [1..Cardinality(names) -> names] : \A n \in names : \E i \in DOMAIN o : o[i] = n}

C13_MergeOrderIndependent ==
    pc = "merged" /\ last = "parallel_analysts" =>
        \A o \in Orders(DOMAIN env.results) :
            update = parallel_analysts_node(env.snapshot,
                        gather(TaskNames(env.snapshot), o, env.results))

C13_Witness ==
    /\ pc = "merged"
    /\ trace = <<"cost_analyst", "critic", "vibe_matcher">>
    /\ ~env.results.vibe_matcher.ok
    /\ env.results.critic.ok
    /\ env.results.critic.update.veto

\* C14: while the analyzers run, what one of them writes to its snapshot,
\* nested values included, is seen neither by another analyzer nor in the
\* canonical state.
C14_SnapshotsIsolated ==
    pc = "gathering" =>
        /\ state = env.snapshot
        /\ \A name \in DOMAIN env.copies :
              \A k \in DOMAIN env.copies[name] :
                  <<name, k>> \notin env.written =>
                      env.objects[env.copies[name][k]] = env.snapshot[k]

\* C15: the Critic returns fast_fail (and veto) true exactly when the analysis
\* of the first candidate completed and reported fast_fail; a fast_fail
\* reported for another candidate only shows in that venue's risk_flags.
Reported(res, k) ==
    /\ res.kind = "analysis"
    /\ res.json = "object"
    /\ k \in DOMAIN res.obj
    /\ res.obj[k] = TRUE

C15_FastFailTopOnly ==
    last = "critic" /\ pc = "returned" =>
        LET first == Len(env.raw) >= 1 /\ Reported(env.raw[1], "fast_fail")
        IN  /\ update.fast_fail = first
            /\ update.veto = first
            /\ \A i \in 2..Len(env.raw) :
                  Reported(env.raw[i], "fast_fail") =>
                      update.risk_flags[env.candidates[i]] = env.raw[i].obj.risks

C15_Witness ==
    /\ last = "critic"
    /\ pc = "returned"
    /\ Len(env.raw) >= 2
    /\ env.raw[1] = VenueAnalysis(DefaultAnalysis)
    /\ Reported(env.raw[2], "fast_fail")
    /\ ~update.fast_fail

\* C16: in every state fast_fail = true implies that fast_fail_reason is set.
C16_FastFailHasReason ==
    Get(state, "fast_fail", FALSE) => Get(state, "fast_fail_reason", None) # None

\* C17: when the analysis of the first candidate reports veto = true with a
\* veto_reason, the Critic returns veto true with that reason and records the
\* venue's risks.
C17_VetoReported ==
    /\ last = "critic"
    /\ pc = "returned"
    /\ Len(env.raw) >= 1
    /\ Reported(env.raw[1], "veto")
    /\ "veto_reason" \in DOMAIN env.raw[1].obj
    => /\ update.veto = TRUE
       /\ update.veto_reason = env.raw[1].obj.veto_reason
       /\ update.risk_flags[env.candidates[1]] = env.raw[1].obj.risks

\* C18: a WebSocket run whose client stays connected ends with exactly one
\* terminal event: a result when the pipeline completed, an error when it
\* raised or hit the deadline; a result and an error are never both sent.
TerminalAt(sent) == {i \in 1..Len(sent) : sent[i].type \in {"result", "error"}}

C18_OneTerminalEvent ==
    env.kind = "websocket" =>
        /\ Cardinality(TerminalAt(env.sent)) <= 1
        /\ env.closed /\ env.connected =>
              /\ Cardinality(TerminalAt(env.sent)) = 1
              /\ pc \in {"done", "failed", "timed_out"}
              /\ pc = "done" => env.sent[Len(env.sent)].type = "result"
              /\ pc \in {"failed", "timed_out"} => env.sent[Len(env.sent)].type = "error"

C18_Witness ==
    /\ env.kind = "websocket"
    /\ env.closed /\ env.connected
    /\ pc = "timed_out"
    /\ Len(env.sent) = 3
    /\ env.sent[3].type = "error"

\* C19: one progress event per node completion, in completion order, with
\* the node's name and its label of the fixed mapping; the progress events
\* come before the terminal event, nothing follows it, and the socket is
\* closed once it is sent (and on every other way out).
C19_ProgressThenTerminal ==
    env.kind = "websocket" =>
        LET sent == env.sent
            labels == [commander |-> "Parsing your request...",
                       scout |-> "Discovering venues...",
                       parallel_analysts |-> "Analysing vibes, cost & risks...",
                       synthesiser |-> "Ranking results..."]
            progress == {i \in 1..Len(sent) : sent[i].type = "progress"}
        IN  /\ \A i \in progress :
                  /\ i <= Len(trace)
                  /\ sent[i] = [type |-> "progress", node |-> trace[i],
                                label |-> labels[trace[i]]]
            /\ env.connected => Cardinality(progress) = Len(trace)
            /\ \A i \in TerminalAt(sent) : i = Len(sent) /\ env.closed
            /\ pc \notin Running \cup {"END"} => env.closed

C19_Witness ==
    /\ env.kind = "websocket"
    /\ pc = "done"
    /\ Len(env.sent) = 8
    /\ env.sent[7].node = "synthesiser"
    /\ env.closed

\* C20: POST /plan answers 504 exactly when the deadline expired, 500 exactly
\* when the executor raised, and otherwise succeeds with the final state's
\* ranked_results as venues; an error answer carries no venues.
C20_PlanOutcomes ==
    env.kind = "http" =>
        LET response == env.response
        IN  /\ response.status \in {0, 200, 500, 504}
            /\ response.status = 504 <=> pc = "timed_out"
            /\ response.status = 500 <=> pc = "failed"
            /\ response.status = 200 <=> pc = "done"
            /\ response.status = 0 <=> pc \in Running \cup {"END"}
            /\ response.status = 200 =>
                  /\ last = "synthesiser"
                  /\ response.venues = state.ranked_results
            /\ response.status \in {500, 504} => "venues" \notin DOMAIN response

C20_Witness ==
    /\ env.kind = "http"
    /\ env.response.status = 504
    /\ Len(Get(state, "candidate_venues", <<>>)) > 0
    /\ last = "parallel_analysts"

\* C25: whenever the Synthesiser is entered the state has the keys
\* vibe_scores, cost_profiles, risk_flags and fast_fail, whatever the plan,
\* the analyzers' failures and the keys of the initial state.
C25_SynthesiserSeesKeys ==
    pc = "synthesiser" =>
        {"vibe_scores", "cost_profiles", "risk_flags", "fast_fail"} \subseteq DOMAIN state

\* C26: at the end of every run the keys of cost_profiles are the venue ids
\* of candidate_venues, also when the CostAnalyst was skipped or failed.
C26_CostProfilesCoverCandidates ==
    pc = "END" =>
        DOMAIN Get(state, "cost_profiles", EmptyMap)
            = {Get(state, "candidate_venues", <<>>)[i] :
                    i \in 1..Len(Get(state, "candidate_venues", <<>>))}

\* C29: with no candidates the Critic returns empty risk_flags, fast_fail and
\* veto false and no reasons, whatever its collaborators would have answered;
\* so a first pass whose Scout found nothing goes on to the Synthesiser.
C29_NoCandidatesNoVeto ==
    env.kind = "parallel_analysts" /\ Get(state, "candidate_venues", <<>>) = <<>> =>
        LET empty == [risk_flags |-> <<>>, fast_fail |-> FALSE, veto |-> FALSE,
                      fast_fail_reason |-> None, veto_reason |-> None]
        IN  /\ env.status.critic = "returned" => env.results.critic.update = empty
            /\ \A raw \in {<<>>} \cup [1..1 -> RunVenueResults] :
                    critic_node(state, raw) = [raised |-> FALSE, update |-> empty]
            /\ Entries = 1 => pc = "synthesiser"

C29_Witness ==
    /\ env.kind = "parallel_analysts"
    /\ state.candidate_venues = <<>>
    /\ env.status.critic = "returned"
    /\ trace = Pass
    /\ pc = "synthesiser"

\* C30: with budget_sensitive set in the profile's preferences the Commander
\* emits the planned cost_analyst weight plus 0.2, at most 1.0; without it
\* the planned weight.
C30_BudgetSensitiveWeight ==
    /\ last = "commander"
    /\ pc = "returned"
    /\ env.llm.kind = "text"
    /\ env.llm.fence # "plain_fence"
    /\ env.llm.body.json = "object"
    /\ "agent_weights" \in DOMAIN env.llm.body.obj
    /\ "cost_analyst" \in DOMAIN env.llm.body.obj.agent_weights
    => LET planned == env.llm.body.obj.agent_weights.cost_analyst
           sensitive == /\ "user_profile" \in DOMAIN state
                        /\ state.user_profile.app_metadata.preferences.budget_sensitive
       IN  update.agent_weights.cost_analyst
               = IF sensitive
                 THEN (IF planned + 2 > 10 THEN 10 ELSE planned + 2)
                 ELSE planned

\* C24: a POST /plan request carrying an invalid bearer token is answered
\* 401 and no node of the pipeline runs for it.
C24_InvalidTokenRejected ==
    env.kind = "http" /\ env.authorization = "invalid" =>
        /\ trace = <<>>
        /\ env.response.status \in {0, 401}

\* C28: once a send has failed on a disconnected client (the server's
\* observation of the disconnect) the run is over: the node whose progress
\* event could not be sent is the last one to run, the handler closes the
\* socket and stops, and no result event is in what was sent.
C28_DisconnectCancels ==
    /\ [][env.kind = "websocket" /\ ~env.connected /\ trace' # trace =>
                /\ pc' \notin Running \cup {"END"}
                /\ env'.closed]_vars
    /\ [](env.kind = "websocket" /\ pc = "disconnected" =>
                /\ env.closed
                /\ ~env.connected
                /\ \A i \in 1..Len(env.sent) : env.sent[i].type # "result"
                /\ ~ENABLED WsNext)

C28_Witness ==
    /\ env.kind = "websocket"
    /\ pc = "disconnected"
    /\ Len(trace) >= 2
    /\ Len(env.sent) = Len(trace) - 1
    /\ trace[Len(trace)] \in {"scout", "parallel_analysts", "synthesiser"}

\* C22: the key set is fetched at most once: two verifications never both
\* issue a fetch, and a filled cache never changes.
C22_JwksFetchedOnce ==
    /\ [](env.kind = "auth" => Len(trace) <= 1)
    /\ [][env.kind = "auth" /\  env._jwks_cache # NoJwks =>
                env'._jwks_cache = env._jwks_cache /\ trace' = trace]_vars

\* C23: without credentials the dependency returns empty claims and the
\* verifier is not invoked; a token that verifies yields its decoded claims;
\* every other token fails with 401.
C23_OptionalAuth ==
    env.kind = "auth" =>
        \A i \in Verifications :
            pc[i] = "returned" =>
                IF state[i].credentials = None
                THEN update[i] = Claims(EmptyMap) @@ [verifier |-> FALSE]
                ELSE IF state[i].credentials = "valid"
                THEN update[i].kind = "claims" /\ update[i].claims = [sub |-> "auth0|abc123"]
                ELSE update[i].kind = "HTTPException" /\ update[i].status_code = 401

\* C21: once the deadline has expired and the timeout error is surfaced, no
\* task of the run makes a further call, the Commander and the CostAnalyst
\* on their worker threads included.
C21_DeadlineStopsEveryTask ==
    env.kind = "deadline" /\ pc = "timed_out" => env.late = <<>>

FailedVenue(outcome) ==
    \/ outcome.kind \in {"timeout", "fetch_raises"}
    \/ outcome.resp.kind # "text"
    \/ outcome.resp.body.json = "invalid"

C32_KeysAreCurrentCandidates ==
    pc = "synthesiser" =>
        LET candidates == Get(state, "candidate_venues", <<>>)
        IN  /\ DOMAIN Get(state, "vibe_scores", EmptyMap) \subseteq IdsOf(candidates)
            /\ DOMAIN Get(state, "risk_flags", EmptyMap)
                    \subseteq {candidates[i] : i \in 1..Min(3, Len(candidates))}

\* C33: after every Commander execution every value of agent_weights lies
\* in [0, 1] (weights are in tenths).
C33_WeightsClamped ==
    last = "commander" /\ pc = "returned" =>
        \A k \in DOMAIN update.agent_weights :
            update.agent_weights[k] >= 0 /\ update.agent_weights[k] <= 10

\* C34: on every path the mapping the Commander was given is unchanged when
\* it returns.
C34_CommanderLeavesInput ==
    last = "commander" /\ pc = "returned" => env.given_on_return = env.given

\* C40: once the Commander has completed in a POST /plan run, parsed_intent
\* is the plan's parsed_intent, or empty after the fallback, and holds no
\* value the request pre-populated.
C40_IntentReplaced ==
    env.kind = "http" /\ trace # <<>> =>
        /\ state.parsed_intent
                \in {EmptyMap} \cup {Get(p, "parsed_intent", EmptyMap) : p \in Plans}
        /\ \A k \in DOMAIN state.parsed_intent \cap DOMAIN env.request :
                state.parsed_intent[k] # env.request[k]
        /\ last = "commander" => state.parsed_intent = update.parsed_intent

C40_Witness ==
    /\ env.kind = "http"
    /\ "vibe" \in DOMAIN env.request
    /\ trace = <<"commander", "scout">>
    /\ state.parsed_intent = [activity |-> "basketball"]
    /\ pc = "parallel_analysts"

\* C35: in every state of a run started from a transport's initial state,
\* veto equals fast_fail and veto_reason equals fast_fail_reason.
C35_AliasesAgree ==
    "retry_count" \in DOMAIN state =>
        /\ {"veto", "fast_fail", "veto_reason", "fast_fail_reason"} \subseteq DOMAIN state
        /\ state.veto = state.fast_fail
        /\ state.veto_reason = state.fast_fail_reason

C35_Witness ==
    /\ "retry_count" \in DOMAIN state
    /\ env.kind = "parallel_analysts"
    /\ env.status.critic = "failed"
    /\ Entries = 2
    /\ ~state.veto /\ ~state.fast_fail
    /\ pc = "synthesiser"

\* C37: when the Critic task as a whole fails inside ParallelAnalysts, the
\* update of that pass carries fast_fail = FALSE and veto = FALSE, the state
\* holds them in place of whatever an earlier pass left, and the edge taken
\* is the one to the Synthesiser.
C37_FailedCriticClearsVeto ==
    (env.kind = "parallel_analysts" /\ env.status.critic = "failed") =>
        /\ {"fast_fail", "veto"} \subseteq DOMAIN update
        /\ update.fast_fail = FALSE /\ update.veto = FALSE
        /\ state.fast_fail = FALSE /\ state.veto = FALSE
        /\ pc = "synthesiser"

C37_Witness ==
    /\ env.kind = "parallel_analysts"
    /\ env.status.critic = "failed"
    /\ trace = <<"commander", "scout", "parallel_analysts",
                 "commander", "scout", "parallel_analysts">>
    /\ update.veto = FALSE
    /\ pc = "synthesiser"

\* C38: a pass of ParallelAnalysts changes only the fields of the analyzers
\* activated in it: every field of an analyzer that was not activated, and
\* every other key of the state, keeps its presence and its value, and with no
\* analyzer activated the state after the pass is the state before it.
C38_OnlyActivatedFieldsWritten ==
    [][(pc = "parallel_analysts" /\ pc' # "timed_out") =>
        LET active == Get(state, "active_agents", <<>>)
            on(name) == Len(active) = 0 \/ \E i \in 1..Len(active) : active[i] = name
            written == UNION {AnalystKeys[name] : name \in {n \in DOMAIN AnalystKeys : on(n)}}
        IN  /\ DOMAIN update' \subseteq written
            /\ \A k \in (DOMAIN state \cup DOMAIN state') \ written :
                    /\ k \in DOMAIN state /\ k \in DOMAIN state'
                    /\ state'[k] = state[k]
            /\ (\A name \in DOMAIN AnalystKeys : ~on(name)) =>
                    state' = state /\ update' = EmptyMap]_vars

C38_Witness ==
    /\ env.kind = "parallel_analysts"
    /\ env.status.cost_analyst = "returned"
    /\ env.status.vibe_matcher = "skipped"
    /\ env.status.critic = "skipped"
    /\ DOMAIN update = AnalystKeys.cost_analyst
    /\ "vibe_scores" \in DOMAIN state /\ "risk_flags" \in DOMAIN state

C36_TransportsAgree ==
    env.kind = "transports" =>
        /\ pc.ws # "failed" => env.accumulated = state.ws
        /\ \A i \in 1..Min(Len(trace.plan), Len(trace.ws)) : trace.plan[i] = trace.ws[i]
        /\ (pc.plan = "done" /\ pc.ws = "done") =>
              /\ trace.plan = trace.ws
              /\ env.response.status = 200
              /\ env.sent[Len(env.sent)].type = "result"
              /\ env.sent[Len(env.sent)].data.venues = env.response.venues

C36_Witness ==
    /\ env.kind = "transports"
    /\ pc.plan = "done" /\ pc.ws = "done"
    /\ Count(trace.ws, "commander") = 2
    /\ env.response.venues # <<>>
    /\ env.sent[Len(env.sent)].data.venues = env.response.venues

====
